---- MODULE Spec2Model ----
(***************************************************************************)
(* A model of ssllabs.client.Client (src/ssllabs/client.py): the entrypoint *)
(* property (urlsplit on set, urlunsplit on get), the host property and the *)
(* analyze generator that polls the assessment service.                     *)
(*                                                                          *)
(* Strings are sequences of tokens.  The delimiters of a URL are tokens of  *)
(* their own; every other token is a run of characters that holds no        *)
(* delimiter, so that find/startswith/rstrip on the string are the same     *)
(* operations on the token sequence.                                        *)
(***************************************************************************)
EXTENDS Integers, Sequences, FiniteSets, TLC

\* ------------------------------------------------------------------ bounds
\* longest URL (in tokens) the URL specification feeds to the setter
MaxUrlLen == 6

\* ------------------------------------------------------------ URL strings
Delims == {":", "/", "?", "#", "&", "[", "]"}

\* str.find: the 1-based index of the first token of s in the set cs, 0 when none
RECURSIVE Find(_, _, _)
Find(s, cs, i) ==
    IF i > Len(s) THEN 0
    ELSE IF s[i] \in cs THEN i
    ELSE Find(s, cs, i + 1)

\* s[i:] of Python with a 1-based i
From(s, i) == IF i > Len(s) THEN << >> ELSE SubSeq(s, i, Len(s))

\* s[:i] of Python, the first n tokens
Upto(s, n) == IF n <= 0 THEN << >> ELSE SubSeq(s, 1, IF n > Len(s) THEN Len(s) ELSE n)

\* str.rstrip('/')
RECURSIVE rstrip(_)
rstrip(s) ==
    IF s # << >> /\ s[Len(s)] = "/" THEN rstrip(SubSeq(s, 1, Len(s) - 1)) ELSE s

\* the query parameters analyze can put in a URL: they hold '=', which is no
\* scheme character
ParamToks == {"startNew=on", "all=done", "publish=on", "ignoreMismatch=on",
              "host=example.com", "host=ssllabs.com"}

\* every character of the token is in urllib's scheme_chars (letters, digits, + - .)
IsSchemeTok(t) == t \notin Delims /\ t \notin ParamToks

\* urllib.parse.uses_netloc, as far as the schemes of the model go
uses_netloc == {<<"http">>, <<"https">>}

\* urllib.parse.urlsplit: scheme up to the first ':' when it is made of scheme
\* characters and starts the string; netloc after a leading '//' up to the next
\* '/', '?' or '#'; then the fragment after '#', the query after '?', and the
\* rest is the path.  A netloc with one bracket and not the other is rejected
\* (ValueError: Invalid IPv6 URL).
urlsplit(value) ==
    LET i      == Find(value, {":"}, 1)
        hasSch == /\ i > 1
                  /\ \A k \in 1..(i - 1) : IsSchemeTok(value[k])
        sch    == IF hasSch THEN Upto(value, i - 1) ELSE << >>
        u1     == IF hasSch THEN From(value, i + 1) ELSE value
        hasNet == Upto(u1, 2) = <<"/", "/">>
        d      == Find(u1, {"/", "?", "#"}, 3)
        net    == IF ~hasNet THEN << >>
                  ELSE IF d = 0 THEN From(u1, 3) ELSE SubSeq(u1, 3, d - 1)
        u2     == IF ~hasNet THEN u1
                  ELSE IF d = 0 THEN << >> ELSE From(u1, d)
        f      == Find(u2, {"#"}, 1)
        frag   == IF f = 0 THEN << >> ELSE From(u2, f + 1)
        u3     == IF f = 0 THEN u2 ELSE Upto(u2, f - 1)
        q      == Find(u3, {"?"}, 1)
        qry    == IF q = 0 THEN << >> ELSE From(u3, q + 1)
        u4     == IF q = 0 THEN u3 ELSE Upto(u3, q - 1)
        open   == \E k \in 1..Len(net) : net[k] = "["
        close  == \E k \in 1..Len(net) : net[k] = "]"
    IN  [valid    |-> open = close,
         scheme   |-> sch,
         netloc   |-> net,
         path     |-> u4,
         query    |-> qry,
         fragment |-> frag]

\* urllib.parse.urlunsplit
urlunsplit(sch, net, url, qry, frag) ==
    LET u1 == IF net # << >> \/ (sch # << >> /\ sch \in uses_netloc
                                  /\ Upto(url, 2) # <<"/", "/">>)
              THEN <<"/", "/">> \o net
                   \o (IF url # << >> /\ url[1] # "/" THEN <<"/">> \o url ELSE url)
              ELSE url
        u2 == IF sch # << >> THEN sch \o <<":">> \o u1 ELSE u1
        u3 == IF qry # << >> THEN u2 \o <<"?">> \o qry ELSE u2
    IN  IF frag # << >> THEN u3 \o <<"#">> \o frag ELSE u3


\* ------------------------------------------------------------------ bounds
\* generator objects created by analyze() calls
MaxRuns == 2
\* requests the runs may issue in all (first requests and polls)
MaxRequests == 4

\* --------------------------------------------------------------- universe
Runs == 1..MaxRuns
Clients == {"c1", "c2"}
Hostnames == {"example.com", "ssllabs.com"}

DefaultEntrypoint == <<"https", ":", "/", "/", "api.ssllabs.com", "/", "api", "/", "v2">>
AltEntrypoint == <<"http", ":", "/", "/", "localhost", "/", "api", "/", "v3", "/">>
Entrypoints == {DefaultEntrypoint, AltEntrypoint}
\* a URL urlsplit raises ValueError for: a "[" in the netloc with no "]"
BadEntrypoint == <<"http", ":", "/", "/", "[", "localhost", "/", "api">>

\* JSON bodies the service can answer an analyze request with
Payloads ==
    {[status |-> "DNS", body |-> "a"],
     [status |-> "IN_PROGRESS", body |-> "a"],
     [status |-> "READY", body |-> "a"],
     [status |-> "READY", body |-> "b"],
     [status |-> "ERROR", body |-> "a"],
     [status |-> "CANCELLED", body |-> "a"]}

\* what requests.get can return: a 200 with a JSON body, or a status that
\* raise_for_status turns into requests.HTTPError
Responses ==
    {[status_code |-> 200, reason |-> "OK", json |-> p] : p \in Payloads}
    \cup {[status_code |-> c, reason |-> m, json |-> [status |-> "", body |-> ""]] :
            c \in {418, 429}, m \in {"Too Many Requests", "Slow Down"}}

\* requests.Response.raise_for_status raises for 4xx and 5xx
raise_for_status(resp) == resp.status_code >= 400 /\ resp.status_code < 600

\* ssllabs.host.Host: the decoded record keeps the payload's fields
Host(data) == [kind |-> "Host", status |-> data.status, body |-> data.body]

NoneValue == [kind |-> "None", status |-> "", body |-> ""]

\* ssllabs.errors.codes: known HTTP status code -> error kind
codes == [c \in {429} |-> "ErrorKindRateLimited"]


\* --------------------------------------------------------- analyze helpers
\* '&'.join of the parameters, as urlencode writes a dict in insertion order
RECURSIVE urlencode(_)
urlencode(q) ==
    IF q = << >> THEN << >>
    ELSE IF Len(q) = 1 THEN q
    ELSE <<q[1], "&">> \o urlencode(Tail(q))

HostParam(h) == IF h = "example.com" THEN "host=example.com" ELSE "host=ssllabs.com"

\* a slip: each flag sets the other flag's parameter
query_swappedFlags(h, publish, ignoreMismatch) ==
    <<HostParam(h), "all=done">>
    \o (IF ignoreMismatch THEN <<"publish=on">> ELSE << >>)
    \o (IF publish THEN <<"ignoreMismatch=on">> ELSE << >>)

\* query = {'host': host, 'all': 'done'} and the two optional flags
query(h, publish, ignoreMismatch) ==
    <<HostParam(h), "all=done">>
    \o (IF publish THEN <<"publish=on">> ELSE << >>)
    \o (IF ignoreMismatch THEN <<"ignoreMismatch=on">> ELSE << >>)

\* a slip: the first request is built from the plain query
startnewquery_plain(q) == q

\* startnewquery = {'startNew': 'on'}; startnewquery.update(query)
startnewquery(q) == <<"startNew=on">> \o q

\* a slip: DNS is left out of the loop condition
InProgress_noDNS(data) == data.status \in {"IN_PROGRESS"}

\* a slip: the loop has no exit, while True
InProgress_always(data) == data.status = data.status

\* the loop condition: data['status'] in {'IN_PROGRESS', 'DNS'}
InProgress(data) == data.status \in {"IN_PROGRESS", "DNS"}

\* a slip: the snapshot is stored only for READY
host_after_readyOnly(old, resp) ==
    IF raise_for_status(resp) THEN old
    ELSE IF resp.json.status # "READY" THEN old
    ELSE Host(resp.json)

\* a slip: the except clause resets the slot
host_after_clearOnError(old, resp) ==
    IF raise_for_status(resp) THEN NoneValue
    ELSE IF InProgress(resp.json) THEN old
    ELSE Host(resp.json)

\* a slip: the assignment is inside the loop, so every snapshot is stored
host_after_storePartial(old, resp) ==
    IF raise_for_status(resp) THEN old ELSE Host(resp.json)

\* a slip: a result already stored is kept
host_after_keepFirst(old, resp) ==
    IF raise_for_status(resp) THEN old
    ELSE IF InProgress(resp.json) THEN old
    ELSE IF old # NoneValue THEN old
    ELSE Host(resp.json)

\* the value of self.__host after the request whose response is resp: the
\* assignment after the loop is reached only when no HTTPError was raised and the
\* loop condition is false
host_after(old, resp) ==
    IF raise_for_status(resp) THEN old
    ELSE IF InProgress(resp.json) THEN old
    ELSE Host(resp.json)

\* a slip: the HTTPError is re-raised whatever its code
MapError_reraise(resp) ==
    [kind |-> "HTTPError", message |-> resp.reason, status_code |-> resp.status_code]

\* the except clause: a known code raises its error kind with the reason as
\* message, any other code re-raises the HTTPError
MapError(resp) ==
    IF resp.status_code \in DOMAIN codes
    THEN [kind |-> codes[resp.status_code], message |-> resp.reason,
          status_code |-> resp.status_code]
    ELSE [kind |-> "HTTPError", message |-> resp.reason,
          status_code |-> resp.status_code]

\* a slip: the property returns the slot as it is
host_property_noRaise(h) == [raised |-> "", value |-> h]

\* the host property: raises NoHostError while self.__host is None
host_property(h) ==
    IF h = NoneValue
    THEN [raised |-> "NoHostError", value |-> NoneValue]
    ELSE [raised |-> "", value |-> h]

\* a slip: the path is stored with its trailing slashes
entrypoint_fields_noStrip(value) ==
    LET parts == urlsplit(value)
    IN  [scheme |-> parts.scheme, netloc |-> parts.netloc, path |-> parts.path]

\* the three fields the entrypoint setter stores
entrypoint_fields(value) ==
    LET parts == urlsplit(value)
    IN  [scheme |-> parts.scheme, netloc |-> parts.netloc, path |-> rstrip(parts.path)]

\* the entrypoint getter
entrypoint_get(sch, net, pth) == urlunsplit(sch, net, pth, << >>, << >>)

\* ------------------------------------------------------------------ state
VARIABLES
    scheme,     \* client -> self.__scheme
    netloc,     \* client -> self.__netloc
    path,       \* client -> self.__path
    host,       \* client -> self.__host
    gen,        \* run -> the generator's frame: position, arguments, locals
    requests,   \* run -> the URLs the run has requested, in order
    responses,  \* run -> the responses the run has received, in order
    yields,     \* run -> the snapshots the run has yielded, in order
    raised,     \* run -> the errors the run has raised to its caller
    before,     \* run -> the client's host and completions when the run started
    completed,  \* client -> the runs that reached a terminal status, in order
    lastset,    \* client -> the URL most recently given to the setter
    ret,        \* the outcome of the most recent property access or late next()
    advances,   \* run -> the next() calls made on the run before it ended
    ref,        \* the most recent info() or statusCodes() call: requests and outcome
    setter,     \* a thread in the entrypoint setter of c1: position and locals
    reader      \* a second thread in the entrypoint getter of c1: position and loads

vars == <<scheme, netloc, path, host, gen, requests, responses, yields, raised,
          before, completed, lastset, ret, advances, ref, setter, reader>>

threads == <<setter, reader>>

\* what belongs to the info() and statusCodes() calls and to the count of advances
calls == <<advances, ref>>

NoFrame ==
    [pc |-> "none", client |-> "c1", host |-> "example.com", publish |-> FALSE,
     ignoreMismatch |-> FALSE, url |-> << >>, data |-> [status |-> "", body |-> ""]]

NoRet == [op |-> "none", raised |-> "", value |-> NoneValue, url |-> << >>]

\* the number of requests the runs 1..n have issued
RECURSIVE Issued(_, _)
Issued(reqs, n) == IF n = 0 THEN 0 ELSE Len(reqs[n]) + Issued(reqs, n - 1)

\* no info() or statusCodes() call was made
NoRef == [op |-> "none", requests |-> << >>, status_code |-> 0, raised |-> ""]

IdleSetter == [pc |-> "idle", parts |-> urlsplit(<< >>)]
IdleReader == [pc |-> "idle", scheme |-> << >>, netloc |-> << >>, clean |-> TRUE]

\* Client(value) for every client: the setter runs on value, then self.__host = None
InitWith(value) ==
    /\ scheme = [c \in Clients |-> entrypoint_fields(value).scheme]
    /\ netloc = [c \in Clients |-> entrypoint_fields(value).netloc]
    /\ path = [c \in Clients |-> entrypoint_fields(value).path]
    /\ host = [c \in Clients |-> NoneValue]
    /\ gen = [r \in Runs |-> NoFrame]
    /\ requests = [r \in Runs |-> << >>]
    /\ responses = [r \in Runs |-> << >>]
    /\ yields = [r \in Runs |-> << >>]
    /\ raised = [r \in Runs |-> << >>]
    /\ before = [r \in Runs |-> [host |-> NoneValue, commits |-> 0]]
    /\ completed = [c \in Clients |-> << >>]
    /\ lastset = [c \in Clients |-> value]
    /\ ret = NoRet
    /\ advances = [r \in Runs |-> 0]
    /\ ref = NoRef
    /\ setter = IdleSetter
    /\ reader = IdleReader

\* Client(), with the default entrypoint
Init == InitWith(DefaultEntrypoint)

\* client.analyze(host, publish, ignoreMismatch): a generator object is made and
\* its arguments bound; no line of the body runs
Analyze(r, c, h, pub, ign) ==
    /\ gen[r].pc = "none"
    /\ \A r2 \in Runs : r2 < r => gen[r2].pc # "none"
    /\ gen' = [gen EXCEPT ![r] = [NoFrame EXCEPT !.pc = "created", !.client = c,
                                   !.host = h, !.publish = pub, !.ignoreMismatch = ign]]
    /\ ret' = NoRet
    /\ UNCHANGED <<scheme, netloc, path, host, requests, responses, yields, raised,
                   before, completed, lastset>>
    /\ UNCHANGED threads
    /\ UNCHANGED calls

\* a slip: the except clause lets the loop go on, so a failed run polls again
Resumable_afterFailure(pc) == pc \in {"created", "suspended", "failed"}

\* a generator runs on next() while it has not returned, raised or been closed
Resumable(pc) == pc \in {"created", "suspended"}

\* a slip: the request is sent once for the status and once for the data
issue_twice(log, url) == Append(Append(log, url), url)

\* requests.get(url): one GET per advance
issue(log, url) == Append(log, url)

\* a slip: the URL is built inside the loop, from the fields as they are now
poll_url_rebuilt(captured, current) == current

\* the URL of a poll: the local url, assigned once before the loop
poll_url(captured, current) == captured

\* a slip: the slot is an attribute of the class, shared by every client
store_shared(hosts, c, resp) == [x \in DOMAIN hosts |-> host_after(hosts[x], resp)]

\* self.__host after the advance, for every client: only the run's own client
store(hosts, c, resp) == [hosts EXCEPT ![c] = host_after(@, resp)]

\* next(generator): the body runs from its start or from the yield up to the next
\* yield, the return or the raise; resp is what requests.get returns
Advance(r, resp) ==
    LET f       == gen[r]
        c       == f.client
        first   == f.pc = "created"
        apath   == path[c] \o <<"/", "analyze">>
        q       == query(f.host, f.publish, f.ignoreMismatch)
        polled  == urlunsplit(scheme[c], netloc[c], apath, urlencode(q), << >>)
        url     == IF first
                   THEN urlunsplit(scheme[c], netloc[c], apath,
                                   urlencode(startnewquery(q)), << >>)
                   ELSE poll_url(f.url, polled)
        failed  == raise_for_status(resp)
        partial == ~failed /\ InProgress(resp.json)
    IN  /\ Resumable(f.pc)
        /\ Issued(requests, MaxRuns) < MaxRequests
        /\ requests' = [requests EXCEPT ![r] = issue(@, url)]
        /\ responses' = [responses EXCEPT ![r] = Append(@, resp)]
        /\ before' = IF first
                     THEN [before EXCEPT ![r] = [host |-> host[c],
                                                 commits |-> Len(completed[c])]]
                     ELSE before
        /\ gen' = [gen EXCEPT ![r] =
                     [f EXCEPT !.pc = IF failed THEN "failed"
                                      ELSE IF partial THEN "suspended" ELSE "done",
                               !.url = IF first /\ ~failed THEN polled ELSE f.url,
                               !.data = IF failed THEN f.data ELSE resp.json]]
        /\ yields' = IF partial THEN [yields EXCEPT ![r] = Append(@, Host(resp.json))]
                     ELSE yields
        /\ raised' = IF failed THEN [raised EXCEPT ![r] = Append(@, MapError(resp))]
                     ELSE raised
        /\ host' = store(host, c, resp)
        /\ completed' = IF ~failed /\ ~partial
                        THEN [completed EXCEPT ![c] = Append(@, r)]
                        ELSE completed
        /\ ret' = NoRet
        /\ UNCHANGED <<scheme, netloc, path, lastset>>
        /\ UNCHANGED threads
        /\ advances' = [advances EXCEPT ![r] = @ + 1]
        /\ ref' = ref

\* next(generator) on a generator that has returned, raised or been closed:
\* StopIteration, and no line of the body runs
AdvanceEnded(r) ==
    /\ gen[r].pc \notin {"none"}
    /\ ~Resumable(gen[r].pc)
    /\ ret' = [NoRet EXCEPT !.op = "next", !.raised = "StopIteration"]
    /\ ret' # ret
    /\ UNCHANGED <<scheme, netloc, path, host, gen, requests, responses, yields,
                   raised, before, completed, lastset>>
    /\ UNCHANGED threads
    /\ UNCHANGED calls

\* the caller stops iterating: the generator is closed or dropped where it is
Abandon(r) ==
    /\ gen[r].pc \in {"created", "suspended"}
    /\ gen' = [gen EXCEPT ![r].pc = "abandoned"]
    /\ ret' = NoRet
    /\ UNCHANGED <<scheme, netloc, path, host, requests, responses, yields, raised,
                   before, completed, lastset>>
    /\ UNCHANGED threads
    /\ UNCHANGED calls

\* client.host
ReadHost(c) ==
    /\ ret' = [op |-> "host", raised |-> host_property(host[c]).raised,
               value |-> host_property(host[c]).value, url |-> << >>]
    /\ ret' # ret
    /\ UNCHANGED <<scheme, netloc, path, host, gen, requests, responses, yields,
                   raised, before, completed, lastset>>
    /\ UNCHANGED threads
    /\ UNCHANGED calls

\* parts = urlsplit(value): the ValueError of the parser leaves the setter
setter_raised(value) == IF urlsplit(value).valid THEN "" ELSE "ValueError"

\* a slip: the fields are reset before the URL is parsed
setter_fields_resetFirst(old, value) ==
    IF urlsplit(value).valid THEN entrypoint_fields(value)
    ELSE [scheme |-> << >>, netloc |-> << >>, path |-> << >>]

\* the three fields after the setter: urlsplit is called before the first
\* assignment, so a call that raises has assigned nothing
setter_fields(old, value) ==
    IF urlsplit(value).valid THEN entrypoint_fields(value) ELSE old

\* client.entrypoint = value, by the one thread that uses the client
SetEntrypoint(c, value) ==
    LET old == [scheme |-> scheme[c], netloc |-> netloc[c], path |-> path[c]]
        new == setter_fields(old, value)
    IN  /\ scheme' = [scheme EXCEPT ![c] = new.scheme]
        /\ netloc' = [netloc EXCEPT ![c] = new.netloc]
        /\ path' = [path EXCEPT ![c] = new.path]
        /\ lastset' = IF setter_raised(value) = "" THEN [lastset EXCEPT ![c] = value]
                      ELSE lastset
        /\ ret' = [NoRet EXCEPT !.op = "set", !.raised = setter_raised(value),
                                !.url = value]
        /\ UNCHANGED <<host, gen, requests, responses, yields, raised, before,
                       completed>>
        /\ UNCHANGED <<setter, reader, advances, ref>>

\* c = Client(value) for a client no run was started on: self.entrypoint = value,
\* then self.__host = None; when the setter raises no object is made and the
\* name keeps the client it had
Construct(c, value) ==
    LET old == [scheme |-> scheme[c], netloc |-> netloc[c], path |-> path[c]]
        new == setter_fields(old, value)
        err == setter_raised(value)
    IN  /\ \A r \in Runs : gen[r].client # c
        /\ scheme' = [scheme EXCEPT ![c] = new.scheme]
        /\ netloc' = [netloc EXCEPT ![c] = new.netloc]
        /\ path' = [path EXCEPT ![c] = new.path]
        /\ host' = IF err = "" THEN [host EXCEPT ![c] = NoneValue] ELSE host
        /\ lastset' = IF err = "" THEN [lastset EXCEPT ![c] = value] ELSE lastset
        /\ ret' = [NoRet EXCEPT !.op = "init", !.raised = err, !.url = value]
        /\ UNCHANGED <<gen, requests, responses, yields, raised, before, completed>>
        /\ UNCHANGED <<setter, reader, advances, ref>>

\* client.entrypoint
GetEntrypoint(c) ==
    /\ ret' = [op |-> "entrypoint", raised |-> "", value |-> NoneValue,
               url |-> entrypoint_get(scheme[c], netloc[c], path[c])]
    /\ ret' # ret
    /\ UNCHANGED <<scheme, netloc, path, host, gen, requests, responses, yields,
                   raised, before, completed, lastset>>
    /\ UNCHANGED threads
    /\ UNCHANGED calls

\* One client used by one thread, analyze called with its default flags: the runs
\* of the client, advanced in any order, and reads of the host property.
Next ==
    \/ \E r \in Runs : Analyze(r, "c1", "example.com", FALSE, FALSE)
    \/ \E r \in Runs, resp \in Responses : Advance(r, resp)
    \/ \E r \in Runs : Abandon(r)
    \/ \E r \in Runs : AdvanceEnded(r)
    \/ ReadHost("c1")

Spec == Init /\ [][Next]_vars

\* One client used by one thread and one run on it: analyze with every combination
\* of its arguments, and the entrypoint set and read between the steps of the run.
NextRequests ==
    \/ \E h \in Hostnames, pub \in BOOLEAN, ign \in BOOLEAN : Analyze(1, "c1", h, pub, ign)
    \/ \E resp \in Responses : Advance(1, resp)
    \/ Abandon(1)
    \/ \E u \in Entrypoints : SetEntrypoint("c1", u)
    \/ GetEntrypoint("c1")

SpecRequests == Init /\ [][NextRequests]_vars


\* Two clients used by one thread: run 1 is an analyze of "c1" and run 2 an
\* analyze of "c2", advanced in any order, and the host property of both is read.
NextTwo ==
    \/ Analyze(1, "c1", "example.com", FALSE, FALSE)
    \/ Analyze(2, "c2", "ssllabs.com", FALSE, FALSE)
    \/ \E r \in Runs, resp \in Responses : Advance(r, resp)
    \/ \E r \in Runs : Abandon(r)
    \/ \E c \in Clients : ReadHost(c)

SpecTwo == Init /\ [][NextTwo]_vars


\* ------------------------------------------------- a run resumed to its end
\* the service's answer lets no run go on: a 4xx/5xx, or a 200 with a status that
\* is neither IN_PROGRESS nor DNS
Final(resp) ==
    resp.status_code # 200 \/ resp.json.status \notin {"IN_PROGRESS", "DNS"}

\* an advance of a run of a service that answers with a final response in the end:
\* at the latest to the last request the model counts
AdvanceAnswered(r, resp) ==
    /\ Advance(r, resp)
    /\ Issued(requests, MaxRuns) = MaxRequests - 1 => Final(resp)

\* One run whose caller keeps calling next() while the generator has not ended.
NextLive ==
    \/ \E h \in Hostnames, pub \in BOOLEAN, ign \in BOOLEAN : Analyze(1, "c1", h, pub, ign)
    \/ \E resp \in Responses : AdvanceAnswered(1, resp)

SpecLive ==
    /\ Init
    /\ [][NextLive]_vars
    /\ WF_vars(\E resp \in Responses : AdvanceAnswered(1, resp))


\* ------------------------------------------------- configuration
\* the URLs given to the setter and to the constructor
GivenUrls == Entrypoints \cup {BadEntrypoint}

\* Client "c1" with an analyze run and its entrypoint set and read between the
\* advances, and clients constructed under the name "c2"; the URL given is one
\* urlsplit accepts or one it rejects.
NextConfig ==
    \/ Analyze(1, "c1", "example.com", FALSE, FALSE)
    \/ \E resp \in Responses : Advance(1, resp)
    \/ \E u \in GivenUrls : SetEntrypoint("c1", u)
    \/ \E u \in GivenUrls : Construct("c2", u)
    \/ GetEntrypoint("c1")

SpecConfig == Init /\ [][NextConfig]_vars


\* ------------------------------------------------- info and statusCodes
\* a slip: the decoded record is stored in the slot of the completed host
reference_host_stored(old, resp) == IF raise_for_status(resp) THEN old ELSE Host(resp.json)

\* self.__host after info() or statusCodes(): neither assigns it
reference_host(old, resp) == old

\* path = '/'.join((self.__path, name))
reference_path(pth, name) == pth \o <<"/", name>>

\* request.raise_for_status() with no except clause around it: the HTTPError of
\* the response reaches the caller as it is, whatever the status code
reference_raised(resp) == IF raise_for_status(resp) THEN "HTTPError" ELSE ""

\* the body shared by info() and statusCodes(): one URL, one GET, then either the
\* HTTPError or the decoded record
Reference(c, op, name, resp) ==
    LET url == urlunsplit(scheme[c], netloc[c], reference_path(path[c], name), << >>, << >>)
    IN  /\ ref' = [op |-> op, requests |-> issue(<< >>, url),
                   status_code |-> resp.status_code, raised |-> reference_raised(resp)]
        /\ host' = [host EXCEPT ![c] = reference_host(@, resp)]
        /\ ret' = NoRet
        /\ UNCHANGED <<scheme, netloc, path, gen, requests, responses, yields, raised,
                       before, completed, lastset, advances>>
        /\ UNCHANGED threads

\* client.info()
Info(c, resp) == Reference(c, "info", "info", resp)

\* client.statusCodes()
StatusCodes(c, resp) == Reference(c, "statusCodes", "getStatusCodes", resp)

\* One client used by one thread: an analyze run, info() and statusCodes() calls
\* between its advances, the entrypoint setter and reads of the host property.
NextSession ==
    \/ Analyze(1, "c1", "example.com", FALSE, FALSE)
    \/ \E resp \in Responses : Advance(1, resp)
    \/ \E resp \in Responses : Info("c1", resp)
    \/ \E resp \in Responses : StatusCodes("c1", resp)
    \/ \E u \in Entrypoints : SetEntrypoint("c1", u)
    \/ ReadHost("c1")

SpecSession == Init /\ [][NextSession]_vars


\* ------------------------------------------------- two threads, one client
\* a slip: the setter does not assign the netloc
setter_step_noNetloc(f, sch, net, pth) ==
    IF f.pc = "parsed"
    THEN [pc |-> "scheme", scheme |-> f.parts.scheme, netloc |-> net, path |-> pth]
    ELSE IF f.pc = "scheme"
    THEN [pc |-> "netloc", scheme |-> sch, netloc |-> net, path |-> pth]
    ELSE [pc |-> "idle", scheme |-> sch, netloc |-> net, path |-> rstrip(f.parts.path)]

\* the three assignments of the setter, one a step: the position reached and the
\* fields after the step, from the setter's frame f and the fields before it
setter_step(f, sch, net, pth) ==
    IF f.pc = "parsed"
    THEN [pc |-> "scheme", scheme |-> f.parts.scheme, netloc |-> net, path |-> pth]
    ELSE IF f.pc = "scheme"
    THEN [pc |-> "netloc", scheme |-> sch, netloc |-> f.parts.netloc, path |-> pth]
    ELSE [pc |-> "idle", scheme |-> sch, netloc |-> net, path |-> rstrip(f.parts.path)]

\* client.entrypoint = value in the setter's thread: parts = urlsplit(value)
SetterCall(value) ==
    /\ setter.pc = "idle"
    /\ urlsplit(value).valid
    /\ setter' = [pc |-> "parsed", parts |-> urlsplit(value)]
    /\ lastset' = [lastset EXCEPT !["c1"] = value]
    /\ UNCHANGED <<scheme, netloc, path, host, gen, requests, responses, yields,
                   raised, before, completed, ret, reader>>
    /\ UNCHANGED calls

\* the next of self.__scheme = ..., self.__netloc = ..., self.__path = ...; a read
\* the other thread has under way is no longer a read between two setter calls
SetterAssign ==
    LET s == setter_step(setter, scheme["c1"], netloc["c1"], path["c1"])
    IN  /\ setter.pc \in {"parsed", "scheme", "netloc"}
        /\ setter' = [setter EXCEPT !.pc = s.pc]
        /\ scheme' = [scheme EXCEPT !["c1"] = s.scheme]
        /\ netloc' = [netloc EXCEPT !["c1"] = s.netloc]
        /\ path' = [path EXCEPT !["c1"] = s.path]
        /\ reader' = IF reader.pc = "idle" THEN reader ELSE [reader EXCEPT !.clean = FALSE]
        /\ UNCHANGED <<host, gen, requests, responses, yields, raised, before,
                       completed, lastset, ret>>
        /\ UNCHANGED calls

\* client.entrypoint in the reader's thread: the tuple's elements are loaded one
\* after the other, then urlunsplit is called and the property returns
ReaderLoad ==
    /\ \/ /\ reader.pc = "idle"
          /\ reader' = [pc |-> "scheme", scheme |-> scheme["c1"], netloc |-> << >>,
                        clean |-> setter.pc \in {"idle", "parsed"}]
          /\ ret' = NoRet
       \/ /\ reader.pc = "scheme"
          /\ reader' = [reader EXCEPT !.pc = "netloc", !.netloc = netloc["c1"]]
          /\ ret' = NoRet
       \/ /\ reader.pc = "netloc"
          /\ reader' = [reader EXCEPT !.pc = "idle"]
          /\ ret' = [op |-> "entrypoint", raised |-> "", value |-> NoneValue,
                     url |-> entrypoint_get(reader.scheme, reader.netloc, path["c1"])]
    /\ UNCHANGED <<scheme, netloc, path, host, gen, requests, responses, yields,
                   raised, before, completed, lastset, setter>>
    /\ UNCHANGED calls

\* One client shared by two threads with no lock: one sets the entrypoint, the
\* other reads it, and the interpreter may switch thread between any two steps.
NextThreads ==
    \/ \E u \in Entrypoints : SetterCall(u)
    \/ SetterAssign
    \/ ReaderLoad

SpecThreads == Init /\ [][NextThreads]_vars

\* ---------------------------------------------------------- any base URL
UrlTokens == {"http", ":", "/", "?", "#"}
Urls == UNION {[1..k -> UrlTokens] : k \in 0..MaxUrlLen}

\* client.entrypoint = client.entrypoint: the setter is given the URL the getter
\* has just returned
SetFromGet(c) ==
    /\ ret.op = "entrypoint"
    /\ SetEntrypoint(c, ret.url)

\* A client constructed on any URL urlsplit accepts, its entrypoint read and set
\* to what was read.
InitUrl == \E value \in Urls : urlsplit(value).valid /\ InitWith(value)

NextUrl ==
    \/ GetEntrypoint("c1")
    \/ SetFromGet("c1")

SpecUrl == InitUrl /\ [][NextUrl]_vars

\* ----------------------------------------------------------------- claims
Range(s) == {s[i] : i \in 1..Len(s)}
Last(s) == s[Len(s)]

\* the response is a 200 whose status is IN_PROGRESS or DNS
PartialResponse(resp) ==
    resp.status_code = 200 /\ resp.json.status \in {"IN_PROGRESS", "DNS"}
\* the response is a 200 with any other status
TerminalResponse(resp) ==
    resp.status_code = 200 /\ resp.json.status \notin {"IN_PROGRESS", "DNS"}
Statuses(r) == [i \in 1..Len(responses[r]) |-> responses[r][i].json.status]

\* C1: of a run that got only 200 responses, k of them IN_PROGRESS or DNS and then
\* at most one with another status, the yields are exactly the decodes of the k
\* partial responses, in order; the response with another status is not yielded
\* and ends the run, and no response is taken after it.
C1_YieldsArePartials ==
    \A r \in Runs :
        LET n == Len(responses[r])
        IN  (\A i \in 1..n : responses[r][i].status_code = 200) =>
              /\ \A i \in 1..(n - 1) : PartialResponse(responses[r][i])
              /\ Len(yields[r]) = Cardinality({i \in 1..n : PartialResponse(responses[r][i])})
              /\ \A i \in 1..Len(yields[r]) : yields[r][i] = Host(responses[r][i].json)
              /\ (n >= 1 /\ TerminalResponse(responses[r][n]) => gen[r].pc = "done")
              /\ (n >= 1 /\ PartialResponse(responses[r][n])
                    => gen[r].pc \in {"suspended", "abandoned"})

C1_Witness ==
    \E r \in Runs :
        /\ Statuses(r) = <<"DNS", "IN_PROGRESS", "READY">>
        /\ gen[r].pc = "done"
        /\ Len(yields[r]) = 2
        /\ yields[r][1].status = "DNS" /\ yields[r][2].status = "IN_PROGRESS"

\* C2: the step in which a run receives a 200 response whose status is neither
\* IN_PROGRESS nor DNS stores the decode of that response as the client's host,
\* ends the run and yields nothing; a read of the host property once a run has
\* ended so returns the stored terminal payload and raises nothing.
C2_Step ==
    /\ \A r \in Runs :
          (responses'[r] # responses[r] /\ TerminalResponse(Last(responses'[r]))) =>
              /\ host'[gen[r].client] = Host(Last(responses'[r]).json)
              /\ gen'[r].pc = "done"
              /\ yields'[r] = yields[r]
    /\ (ret'.op = "host" /\ completed["c1"] # << >>) =>
          /\ ret'.raised = ""
          /\ ret'.value = Host(Last(responses[Last(completed["c1"])]).json)
C2_TerminalStored == [][C2_Step]_vars

C2_Witness ==
    /\ ret.op = "host" /\ ret.raised = ""
    /\ ret.value = [kind |-> "Host", status |-> "ERROR", body |-> "a"]
    /\ \E r \in Runs : gen[r].pc = "done" /\ Len(yields[r]) = 1

\* C3: while no run of the client has reached a terminal status (runs created,
\* suspended, abandoned or failed), a read of the host property raises NoHostError
\* and returns no value.
C3_NoHostYet ==
    (ret.op = "host" /\ \A r \in Runs : gen[r].pc # "done") =>
        /\ ret.raised = "NoHostError"
        /\ ret.value = NoneValue

C3_Witness ==
    /\ ret.op = "host" /\ ret.raised = "NoHostError"
    /\ \E r \in Runs : gen[r].pc = "failed" /\ Len(yields[r]) = 2
    /\ \E r \in Runs : gen[r].pc = "suspended"

\* C4: a run that failed made its last request the failing one (every earlier
\* response was a partial 200), and when no other run completed meanwhile the
\* client's host is what it was when the run started; no snapshot the run yielded
\* is the client's host.
C4_FailureKeepsHost ==
    \A r \in Runs :
        gen[r].pc = "failed" =>
            LET n == Len(responses[r])
                c == gen[r].client
            IN  /\ n >= 1 /\ Len(requests[r]) = n
                /\ responses[r][n].status_code # 200
                /\ \A i \in 1..(n - 1) : PartialResponse(responses[r][i])
                /\ (Len(completed[c]) = before[r].commits => host[c] = before[r].host)
                /\ \A i \in 1..Len(yields[r]) : host[c] # yields[r][i]

C4_Witness ==
    \E r \in Runs :
        /\ gen[r].pc = "failed"
        /\ Len(requests[r]) = 3
        /\ before[r].host # NoneValue
        /\ Len(completed[gen[r].client]) = before[r].commits
        /\ host[gen[r].client] = before[r].host

\* the request's URL carries the parameter
Carries(url, param) == param \in Range(urlsplit(url).query)

\* C5: the first request of a run carries startNew=on and no later request of the
\* run does, whatever the flags.
C5_StartNewOnce ==
    \A r \in Runs :
        \A i \in 1..Len(requests[r]) : Carries(requests[r][i], "startNew=on") <=> (i = 1)

C5_Witness ==
    \E r \in Runs :
        /\ Len(requests[r]) = 3
        /\ gen[r].publish /\ gen[r].ignoreMismatch
        /\ Carries(requests[r][1], "startNew=on")
        /\ ~Carries(requests[r][3], "startNew=on")

\* C6: a run is failed exactly when its last response had a 4xx/5xx status; it has
\* then raised one error, at that request: the kind mapped to the code with the
\* server's reason as message for a known code (429), the HTTPError of the response
\* for any other code.  A run that is not failed has raised nothing.
C6_ErrorMapped ==
    \A r \in Runs :
        LET n == Len(responses[r])
            bad == n >= 1 /\ responses[r][n].status_code # 200
        IN  /\ (gen[r].pc = "failed") <=> bad
            /\ ~bad => raised[r] = << >>
            /\ bad =>
                 /\ Len(raised[r]) = 1
                 /\ Len(requests[r]) = n
                 /\ raised[r][1].message = responses[r][n].reason
                 /\ raised[r][1].status_code = responses[r][n].status_code
                 /\ raised[r][1].kind =
                        IF responses[r][n].status_code = 429
                        THEN "ErrorKindRateLimited" ELSE "HTTPError"

C6_Witness ==
    /\ \E r \in Runs :
          /\ Len(responses[r]) = 3
          /\ raised[r] = <<[kind |-> "ErrorKindRateLimited",
                            message |-> "Too Many Requests", status_code |-> 429]>>
    /\ \E r \in Runs :
          /\ Len(responses[r]) = 1
          /\ raised[r] = <<[kind |-> "HTTPError", message |-> "Slow Down",
                            status_code |-> 418]>>

\* C7: every step of a run that does not receive a terminal status (it yields, or
\* the caller abandons it where it is suspended) leaves the client's host, scheme,
\* netloc and path as they were.
C7_Step ==
    \A r \in Runs :
        (\/ requests'[r] # requests[r] /\ gen'[r].pc = "suspended"
         \/ gen[r].pc # "abandoned" /\ gen'[r].pc = "abandoned") =>
            /\ host' = host
            /\ scheme' = scheme /\ netloc' = netloc /\ path' = path
C7_NothingCommitted == [][C7_Step]_vars

C7_Witness ==
    /\ gen[1].pc = "abandoned"
    /\ Len(yields[1]) = 2
    /\ host["c1"] = NoneValue
    /\ lastset["c1"] = AltEntrypoint
    /\ path["c1"] = <<"/", "api", "/", "v3">>

\* C8: the client's host is None while no run of the client has reached a terminal
\* status, and otherwise the decode of the terminal response of the run that
\* reached one most recently, whatever the other runs did since.
C8_MostRecentCompleted ==
    \A c \in Clients :
        IF completed[c] = << >>
        THEN host[c] = NoneValue
        ELSE host[c] = Host(Last(responses[Last(completed[c])]).json)

C8_Witness ==
    /\ completed["c1"] = <<2, 1>>
    /\ Len(responses[1]) = 3
    /\ Last(responses[2]).json = [status |-> "READY", body |-> "a"]
    /\ host["c1"] = [kind |-> "Host", status |-> "READY", body |-> "b"]


\* the getter's output for each URL the setter is given in SpecThreads
WholeUrls ==
    {urlunsplit(urlsplit(u).scheme, urlsplit(u).netloc, rstrip(urlsplit(u).path),
                << >>, << >>) : u \in Entrypoints}

\* C9 as claimed: every URL the getter returns, also one read while another thread
\* is in the setter, is made of the scheme, netloc and path of one URL that was set.
C9_NoMixedRead ==
    ret.op = "entrypoint" => ret.url \in WholeUrls

\* C9 as amended: once a setter call has returned, scheme, netloc and path are
\* those of the URL it was given, and a getter call during which the other thread
\* was never between the setter's first and last assignment returns a URL made of
\* the components of one URL that was set.
C9_AtomicBetweenCalls ==
    /\ setter.pc = "idle" =>
          /\ scheme["c1"] = urlsplit(lastset["c1"]).scheme
          /\ netloc["c1"] = urlsplit(lastset["c1"]).netloc
          /\ path["c1"] = rstrip(urlsplit(lastset["c1"]).path)
    /\ (ret.op = "entrypoint" /\ reader.clean) => ret.url \in WholeUrls

C9_Witness ==
    /\ ret.op = "entrypoint" /\ reader.clean
    /\ ret.url = <<"http", ":", "/", "/", "localhost", "/", "api", "/", "v3">>
    /\ setter.pc = "idle"
    /\ lastset["c1"] = DefaultEntrypoint

\* a base URL with a scheme and an authority
ValidBaseURL(u) ==
    urlsplit(u).valid /\ urlsplit(u).scheme # << >> /\ urlsplit(u).netloc # << >>

\* C10: for a base URL u with a scheme and an authority, the URL the getter returns
\* after u was set splits into the scheme and netloc of u, the path of u without
\* its trailing slashes, and an empty query and fragment; and setting the
\* entrypoint to the URL just read leaves scheme, netloc and path as they were.
C10_Step ==
    /\ (ret'.op = "entrypoint" /\ ValidBaseURL(lastset["c1"])) =>
          LET p == urlsplit(ret'.url)
              u == urlsplit(lastset["c1"])
          IN  /\ p.scheme = u.scheme
              /\ p.netloc = u.netloc
              /\ p.path = rstrip(u.path)
              /\ p.query = << >> /\ p.fragment = << >>
    /\ (ret.op = "entrypoint" /\ ret'.op = "set" /\ lastset'["c1"] = ret.url
          /\ ValidBaseURL(lastset["c1"])) =>
          /\ scheme' = scheme /\ netloc' = netloc /\ path' = path
C11_Step ==
    /\ \A r \in Runs :
          /\ Len(requests'[r]) = advances'[r]
          /\ (gen[r].pc = "none" /\ gen'[r].pc = "created") =>
                (requests' = requests /\ responses' = responses /\ host' = host)
          /\ advances'[r] = advances[r] + 1 =>
                (Len(requests'[r]) = Len(requests[r]) + 1
                   /\ Len(responses'[r]) = Len(responses[r]) + 1)
          /\ advances'[r] = advances[r] =>
                (requests'[r] = requests[r] /\ responses'[r] = responses[r]
                   /\ yields'[r] = yields[r] /\ raised'[r] = raised[r])
    /\ advances' = advances => host' = host
C11_OnDemand == [][C11_Step]_vars

C11_Witness ==
    /\ gen[1].pc = "suspended" /\ advances[1] = 3 /\ Len(requests[1]) = 3
    /\ gen[2].pc = "created" /\ advances[2] = 0 /\ requests[2] = << >>
    /\ ret.op = "host"

\* C12: a run that has ended, by a terminal status or by an HTTP failure, keeps
\* its requests, responses, yields, raised errors and frame in every later step;
\* a next() on an ended generator raises StopIteration and leaves the client's
\* host and every run as they were.
C12_Step ==
    /\ \A r \in Runs :
          gen[r].pc \in {"done", "failed"} =>
              /\ gen'[r] = gen[r]
              /\ requests'[r] = requests[r] /\ responses'[r] = responses[r]
              /\ yields'[r] = yields[r] /\ raised'[r] = raised[r]
    /\ (ret'.op = "next" /\ ret' # ret) =>
          /\ ret'.raised = "StopIteration"
          /\ host' = host /\ gen' = gen /\ requests' = requests
          /\ yields' = yields /\ completed' = completed
C12_EndedStaysEnded == [][C12_Step]_vars

C12_Witness ==
    /\ ret.op = "next" /\ ret.raised = "StopIteration"
    /\ gen[1].pc = "failed" /\ Len(requests[1]) = 2
    /\ gen[2].pc = "done"


\* the parameters of the query string of a requested URL
ParamsOf(url) == Range(urlsplit(url).query) \ {"&"}

\* the parameters the claim gives a request of a run for hostname h and the flags
ClaimedParams(h, publish, ignoreMismatch) ==
    {IF h = "example.com" THEN "host=example.com" ELSE "host=ssllabs.com", "all=done"}
    \cup (IF publish THEN {"publish=on"} ELSE {})
    \cup (IF ignoreMismatch THEN {"ignoreMismatch=on"} ELSE {})

\* C13: startNew=on apart, every request of a run carries exactly host=<hostname>,
\* all=done, publish=on when and only when the run was started with publish, and
\* ignoreMismatch=on when and only when it was started with ignoreMismatch; so all
\* the requests of a run carry the same parameters, each of them once.
C13_SameParams ==
    \A r \in Runs :
        \A i \in 1..Len(requests[r]) :
            LET q == urlsplit(requests[r][i]).query
                n == Cardinality(ParamsOf(requests[r][i]))
            IN  /\ ParamsOf(requests[r][i]) \ {"startNew=on"}
                      = ClaimedParams(gen[r].host, gen[r].publish, gen[r].ignoreMismatch)
                /\ Len(q) = 2 * n - 1
                /\ ParamsOf(requests[r][i]) \ {"startNew=on"}
                      = ParamsOf(requests[r][1]) \ {"startNew=on"}

C13_Witness ==
    /\ Len(requests[1]) = 3
    /\ gen[1].host = "ssllabs.com" /\ gen[1].publish /\ ~gen[1].ignoreMismatch
    /\ ParamsOf(requests[1][3]) = {"host=ssllabs.com", "all=done", "publish=on"}


\* the run of a client, where each client has one run: "c1" run 1, "c2" run 2
RunOf(c) == IF c = "c1" THEN 1 ELSE 2

\* C14: with one run on each of two clients, interleaved in any order, the host
\* of a client is the decode of the terminal response of its own run once that run
\* is done and None before, whatever the other run received; so reading the host
\* property of a client raises NoHostError exactly while its own run is not done.
C14_OwnRunOnly ==
    \A c \in Clients :
        LET r == RunOf(c) IN
        /\ gen[r].pc # "none" => gen[r].client = c
        /\ host[c] = IF gen[r].pc = "done" THEN Host(Last(responses[r]).json)
                     ELSE NoneValue
        /\ host_property(host[c]).raised = "NoHostError" <=> gen[r].pc # "done"

C14_Witness ==
    /\ gen[1].pc = "suspended" /\ Len(responses[1]) = 2
    /\ gen[2].pc = "done" /\ Len(responses[2]) = 2
    /\ host["c1"] = NoneValue
    /\ host["c2"] = Host([status |-> "READY", body |-> "b"])
    /\ ret.op = "host" /\ ret.raised = "NoHostError"


\* the error the claim gives a response with a 4xx/5xx status: the kind of the
\* table for a known code, the HTTPError of the response for any other
ClaimedKind(status_code) ==
    IF status_code \in DOMAIN codes THEN codes[status_code] ELSE "HTTPError"

\* C15: every operation that issues a request classifies a failing response: info,
\* statusCodes and analyze alike raise the named kind for a known status code and
\* the HTTPError only for a code that is not in the table.
C15_ClassifiedEverywhere ==
    /\ (ref.op \in {"info", "statusCodes"} /\ ref.status_code # 200) =>
            ref.raised = ClaimedKind(ref.status_code)
    /\ \A r \in Runs :
            gen[r].pc = "failed" =>
                raised[r][1].kind = ClaimedKind(Last(responses[r]).status_code)

\* C19: a call of info or statusCodes issues exactly one GET, to the path info,
\* respectively getStatusCodes, under the configured base, with no query; and,
\* raising or returning, it leaves the client's host, scheme, netloc and path and
\* every run as they were, so a client whose host property raised NoHostError before
\* the call still raises it after.
C19_Step ==
    ref' # ref =>
        LET u == urlsplit(ref'.requests[1])
            name == IF ref'.op = "info" THEN "info" ELSE "getStatusCodes"
        IN  /\ ref'.op \in {"info", "statusCodes"}
            /\ Len(ref'.requests) = 1
            /\ u.scheme = scheme["c1"] /\ u.netloc = netloc["c1"]
            /\ u.path = path["c1"] \o <<"/", name>>
            /\ u.query = << >> /\ u.fragment = << >>
            /\ ref'.raised # "" <=> ref'.status_code # 200
            /\ host' = host /\ scheme' = scheme /\ netloc' = netloc /\ path' = path
            /\ host_property(host'["c1"]) = host_property(host["c1"])
            /\ gen' = gen /\ requests' = requests /\ completed' = completed
C19_ReferenceFrame == [][C19_Step]_vars

C19_Witness ==
    /\ ref.op = "statusCodes" /\ ref.status_code = 200
    /\ Len(ref.requests) = 1
    /\ urlsplit(ref.requests[1]).netloc = <<"localhost">>
    /\ gen[1].pc = "suspended"
    /\ host["c1"] = NoneValue
    /\ ret.op = "host" /\ ret.raised = "NoHostError"


\* C16: a setter call or a construction with a URL the parser rejects raises at
\* that call, and the step of the call issues no request and leaves the scheme,
\* netloc and path of every client, the hosts and the runs as they were; a call
\* with a URL the parser accepts does not raise; and no request ever issued was
\* built from the rejected URL.
C16_Step ==
    /\ ret'.op \in {"set", "init"} =>
          IF urlsplit(ret'.url).valid
          THEN ret'.raised = ""
          ELSE /\ ret'.raised = "ValueError"
               /\ scheme' = scheme /\ netloc' = netloc /\ path' = path
               /\ host' = host /\ gen' = gen /\ requests' = requests
               /\ lastset' = lastset
    /\ \A r \in Runs :
          \A i \in 1..Len(requests'[r]) :
              LET u == urlsplit(requests'[r][i])
              IN  u.valid /\ u.netloc # urlsplit(BadEntrypoint).netloc
C16_FailsAtConfiguration == [][C16_Step]_vars

C16_Witness ==
    /\ ret.op = "set" /\ ret.raised = "ValueError" /\ ret.url = BadEntrypoint
    /\ lastset["c1"] = AltEntrypoint
    /\ scheme["c1"] = <<"http">> /\ netloc["c1"] = <<"localhost">>
    /\ path["c1"] = <<"/", "api", "/", "v3">>
    /\ lastset["c2"] = AltEntrypoint
    /\ gen[1].pc = "suspended" /\ Len(requests[1]) = 2


\* C18: the first request of a run goes to the scheme, netloc and path + /analyze
\* the client has at the advance that issues it, whatever they were when analyze()
\* was called; every later request of the run goes to the scheme, netloc and path
\* of its first request, whatever the setter stored while the run was suspended.
C18_Step ==
    \A r \in Runs :
        requests'[r] # requests[r] =>
            LET c == gen[r].client
                u == urlsplit(Last(requests'[r]))
                first == urlsplit(requests'[r][1])
            IN  IF requests[r] = << >>
                THEN /\ u.scheme = scheme[c] /\ u.netloc = netloc[c]
                     /\ u.path = path[c] \o <<"/", "analyze">>
                ELSE /\ u.scheme = first.scheme /\ u.netloc = first.netloc
                     /\ u.path = first.path
C18_EndpointOfFirstRequest == [][C18_Step]_vars

C18_Witness ==
    /\ Len(requests[1]) = 3
    /\ urlsplit(requests[1][3]).netloc = <<"localhost">>
    /\ urlsplit(requests[1][3]).path = <<"/", "api", "/", "v3", "/", "analyze">>
    /\ lastset["c1"] = DefaultEntrypoint
    /\ netloc["c1"] = <<"api.ssllabs.com">>
    /\ ret.op = "set"


\* C17: a run whose caller keeps resuming it, of a service that answers some
\* request with a terminal status or a 4xx/5xx, ends: it is done or failed in the
\* end.  The driver has no poll limit of its own: as long as every answer was
\* IN_PROGRESS or DNS the run is suspended, and its next poll can be made.
C17_StillPolling ==
    (responses[1] # << >> /\ \A i \in 1..Len(responses[1]) : PartialResponse(responses[1][i]))
        => /\ gen[1].pc = "suspended"
           /\ Len(requests[1]) = Len(responses[1])
           /\ ENABLED (\E resp \in Responses : AdvanceAnswered(1, resp))
C17_EventuallyEnds ==
    /\ [](C17_StillPolling)
    /\ (gen[1].pc = "created") ~> (gen[1].pc \in {"done", "failed"})

C17_Witness ==
    /\ gen[1].pc = "done"
    /\ Len(responses[1]) = 4
    /\ \A i \in 1..3 : PartialResponse(responses[1][i])
    /\ Final(responses[1][4])

====
